---- MODULE Spec2Model ----
(***************************************************************************)
(* The Mergington High School activities API (src/app.py): two SQLite      *)
(* tables, the start-up seeding routine init_db, the catalog read          *)
(* load_activities and the two mutating handlers signup_for_activity and   *)
(* unregister_from_activity.                                               *)
(*                                                                         *)
(* A worker is one thread of control that imports the module (running      *)
(* init_db) and then serves requests one at a time.  Workers share nothing *)
(* but the database file; every SQL statement is one atomic step, and a    *)
(* write statement is one step together with the commit or rollback that   *)
(* the connection's context manager performs when the block is left, since *)
(* no other connection can see or overtake an uncommitted write.  A writer  *)
(* that finds the file locked waits for the lock (SQLite's busy timeout);  *)
(* the wait running out is not modelled, nor is a failing disk.            *)
(***************************************************************************)
EXTENDS Integers, Sequences, FiniteSets, Bags, TLC

\* ---------------------------------------------------------------- bounds
\* Number of workers that share the database file.
NumWorkers == 2
\* Number of students of the roster that queue up for "Math Club" in the
\* capacity scenario (SpecCapacity).
NumStudents == 9

Workers == 1..NumWorkers

\* ------------------------------------------------------------- seed data
DEFAULT_ACTIVITIES ==
  << [name |-> "Chess Club",
      description |-> "Learn strategies and compete in chess tournaments",
      schedule |-> "Fridays, 3:30 PM - 5:00 PM",
      max_participants |-> 12,
      participants |-> << "michael@mergington.edu", "daniel@mergington.edu" >>],
     [name |-> "Programming Class",
      description |-> "Learn programming fundamentals and build software projects",
      schedule |-> "Tuesdays and Thursdays, 3:30 PM - 4:30 PM",
      max_participants |-> 20,
      participants |-> << "emma@mergington.edu", "sophia@mergington.edu" >>],
     [name |-> "Gym Class",
      description |-> "Physical education and sports activities",
      schedule |-> "Mondays, Wednesdays, Fridays, 2:00 PM - 3:00 PM",
      max_participants |-> 30,
      participants |-> << "john@mergington.edu", "olivia@mergington.edu" >>],
     [name |-> "Soccer Team",
      description |-> "Join the school soccer team and compete in matches",
      schedule |-> "Tuesdays and Thursdays, 4:00 PM - 5:30 PM",
      max_participants |-> 22,
      participants |-> << "liam@mergington.edu", "noah@mergington.edu" >>],
     [name |-> "Basketball Team",
      description |-> "Practice and play basketball with the school team",
      schedule |-> "Wednesdays and Fridays, 3:30 PM - 5:00 PM",
      max_participants |-> 15,
      participants |-> << "ava@mergington.edu", "mia@mergington.edu" >>],
     [name |-> "Art Club",
      description |-> "Explore your creativity through painting and drawing",
      schedule |-> "Thursdays, 3:30 PM - 5:00 PM",
      max_participants |-> 15,
      participants |-> << "amelia@mergington.edu", "harper@mergington.edu" >>],
     [name |-> "Drama Club",
      description |-> "Act, direct, and produce plays and performances",
      schedule |-> "Mondays and Wednesdays, 4:00 PM - 5:30 PM",
      max_participants |-> 20,
      participants |-> << "ella@mergington.edu", "scarlett@mergington.edu" >>],
     [name |-> "Math Club",
      description |-> "Solve challenging problems and participate in math competitions",
      schedule |-> "Tuesdays, 3:30 PM - 4:30 PM",
      max_participants |-> 10,
      participants |-> << "james@mergington.edu", "benjamin@mergington.edu" >>],
     [name |-> "Debate Team",
      description |-> "Develop public speaking and argumentation skills",
      schedule |-> "Fridays, 4:00 PM - 5:30 PM",
      max_participants |-> 12,
      participants |-> << "charlotte@mergington.edu", "henry@mergington.edu" >>] >>

\* The bytes of every text value that is ever stored or compared: SQLite
\* compares TEXT with the BINARY collation, byte by byte.
Utf8 ==
     "Chess Club" :> << 67, 104, 101, 115, 115, 32, 67, 108, 117, 98 >> @@
     "Programming Class" :> << 80, 114, 111, 103, 114, 97, 109, 109, 105, 110, 103, 32, 67, 108, 97, 115, 115 >> @@
     "Gym Class" :> << 71, 121, 109, 32, 67, 108, 97, 115, 115 >> @@
     "Soccer Team" :> << 83, 111, 99, 99, 101, 114, 32, 84, 101, 97, 109 >> @@
     "Basketball Team" :> << 66, 97, 115, 107, 101, 116, 98, 97, 108, 108, 32, 84, 101, 97, 109 >> @@
     "Art Club" :> << 65, 114, 116, 32, 67, 108, 117, 98 >> @@
     "Drama Club" :> << 68, 114, 97, 109, 97, 32, 67, 108, 117, 98 >> @@
     "Math Club" :> << 77, 97, 116, 104, 32, 67, 108, 117, 98 >> @@
     "Debate Team" :> << 68, 101, 98, 97, 116, 101, 32, 84, 101, 97, 109 >> @@
     "michael@mergington.edu" :> << 109, 105, 99, 104, 97, 101, 108, 64, 109, 101, 114, 103, 105, 110, 103, 116, 111, 110, 46, 101, 100, 117 >> @@
     "daniel@mergington.edu" :> << 100, 97, 110, 105, 101, 108, 64, 109, 101, 114, 103, 105, 110, 103, 116, 111, 110, 46, 101, 100, 117 >> @@
     "emma@mergington.edu" :> << 101, 109, 109, 97, 64, 109, 101, 114, 103, 105, 110, 103, 116, 111, 110, 46, 101, 100, 117 >> @@
     "sophia@mergington.edu" :> << 115, 111, 112, 104, 105, 97, 64, 109, 101, 114, 103, 105, 110, 103, 116, 111, 110, 46, 101, 100, 117 >> @@
     "john@mergington.edu" :> << 106, 111, 104, 110, 64, 109, 101, 114, 103, 105, 110, 103, 116, 111, 110, 46, 101, 100, 117 >> @@
     "olivia@mergington.edu" :> << 111, 108, 105, 118, 105, 97, 64, 109, 101, 114, 103, 105, 110, 103, 116, 111, 110, 46, 101, 100, 117 >> @@
     "liam@mergington.edu" :> << 108, 105, 97, 109, 64, 109, 101, 114, 103, 105, 110, 103, 116, 111, 110, 46, 101, 100, 117 >> @@
     "noah@mergington.edu" :> << 110, 111, 97, 104, 64, 109, 101, 114, 103, 105, 110, 103, 116, 111, 110, 46, 101, 100, 117 >> @@
     "ava@mergington.edu" :> << 97, 118, 97, 64, 109, 101, 114, 103, 105, 110, 103, 116, 111, 110, 46, 101, 100, 117 >> @@
     "mia@mergington.edu" :> << 109, 105, 97, 64, 109, 101, 114, 103, 105, 110, 103, 116, 111, 110, 46, 101, 100, 117 >> @@
     "amelia@mergington.edu" :> << 97, 109, 101, 108, 105, 97, 64, 109, 101, 114, 103, 105, 110, 103, 116, 111, 110, 46, 101, 100, 117 >> @@
     "harper@mergington.edu" :> << 104, 97, 114, 112, 101, 114, 64, 109, 101, 114, 103, 105, 110, 103, 116, 111, 110, 46, 101, 100, 117 >> @@
     "ella@mergington.edu" :> << 101, 108, 108, 97, 64, 109, 101, 114, 103, 105, 110, 103, 116, 111, 110, 46, 101, 100, 117 >> @@
     "scarlett@mergington.edu" :> << 115, 99, 97, 114, 108, 101, 116, 116, 64, 109, 101, 114, 103, 105, 110, 103, 116, 111, 110, 46, 101, 100, 117 >> @@
     "james@mergington.edu" :> << 106, 97, 109, 101, 115, 64, 109, 101, 114, 103, 105, 110, 103, 116, 111, 110, 46, 101, 100, 117 >> @@
     "benjamin@mergington.edu" :> << 98, 101, 110, 106, 97, 109, 105, 110, 64, 109, 101, 114, 103, 105, 110, 103, 116, 111, 110, 46, 101, 100, 117 >> @@
     "charlotte@mergington.edu" :> << 99, 104, 97, 114, 108, 111, 116, 116, 101, 64, 109, 101, 114, 103, 105, 110, 103, 116, 111, 110, 46, 101, 100, 117 >> @@
     "henry@mergington.edu" :> << 104, 101, 110, 114, 121, 64, 109, 101, 114, 103, 105, 110, 103, 116, 111, 110, 46, 101, 100, 117 >>

\* --------------------------------------------------------- SQL statements
\* Text comparison of ORDER BY: lexicographic on the bytes, a proper prefix
\* first.
TextLess(s, t) ==
  LET a == Utf8[s]
      b == Utf8[t]
  IN  \E i \in 1..Len(b) :
        /\ \A j \in 1..(i - 1) : j <= Len(a) /\ a[j] = b[j]
        /\ (i > Len(a) \/ a[i] < b[i])

\* A table is a bag of rows: what keeps a row from occurring twice is the
\* PRIMARY KEY check of the INSERT statement, not the representation.
ActivityRow(activity) ==
  [name |-> activity.name,
   description |-> activity.description,
   schedule |-> activity.schedule,
   max_participants |-> activity.max_participants]

RegistrationRow(activity_name, email) ==
  [activity_name |-> activity_name, email |-> email]

\* INSERT INTO activities: fails (IntegrityError) on a row with the same name.
InsertActivity(table, row) ==
  IF \E r \in BagToSet(table) : r.name = row.name
    THEN [ok |-> FALSE, table |-> table]
    ELSE [ok |-> TRUE, table |-> table (+) SetToBag({row})]

\* The INSERT on a table declared without PRIMARY KEY (activity_name, email).
InsertRegistrationNoKey(table, row) ==
  [ok |-> TRUE, table |-> table (+) SetToBag({row})]

\* INSERT INTO activity_registrations: fails (IntegrityError) on a row with
\* the same (activity_name, email). The FOREIGN KEY clause is not checked: no
\* connection turns foreign keys on.
InsertRegistration(table, row) ==
  IF BagIn(row, table)
    THEN [ok |-> FALSE, table |-> table]
    ELSE [ok |-> TRUE, table |-> table (+) SetToBag({row})]

\* SELECT COUNT(*) FROM activities
CountActivities(table) == BagCardinality(table)

\* SELECT name FROM activities WHERE name = ? answered as if every name matched.
SelectActivityAnyName(table, activity_name) ==
  {[name |-> activity_name]}

\* SELECT name FROM activities WHERE name = ?   (the set of rows found)
SelectActivity(table, activity_name) ==
  {[name |-> r.name] : r \in {x \in BagToSet(table) : x.name = activity_name}}

\* The lookup of the registration answered as if no row matched.
SelectRegistrationNone(table, activity_name, email) ==
  {}

\* SELECT 1 FROM activity_registrations WHERE activity_name = ? AND email = ?
SelectRegistration(table, activity_name, email) ==
  {r \in BagToSet(table) : r.activity_name = activity_name /\ r.email = email}

\* The rows of a table that are left when the rows `hit` are deleted.
Without(table, hit) == [r \in BagToSet(table) \ hit |-> table[r]]

\* DELETE ... WHERE activity_name = ?   (the email condition lost)
DeleteRegistrationWholeActivity(table, activity_name, email) ==
  LET hit == {r \in BagToSet(table) : r.activity_name = activity_name}
  IN  [rowcount |-> BagCardinality(table) - BagCardinality(Without(table, hit)),
       table |-> Without(table, hit)]

\* DELETE FROM activity_registrations WHERE activity_name = ? AND email = ?
\* removes every matching row and reports how many there were.
DeleteRegistration(table, activity_name, email) ==
  LET hit == {r \in BagToSet(table) :
                r.activity_name = activity_name /\ r.email = email}
  IN  [rowcount |-> BagCardinality(table) - BagCardinality(Without(table, hit)),
       table |-> Without(table, hit)]

\* ORDER BY name
NameOrder(r, x) == TextLess(r.name, x.name)

\* ORDER BY activity_name, email
ActivityEmailOrder(r, x) ==
  \/ TextLess(r.activity_name, x.activity_name)
  \/ r.activity_name = x.activity_name /\ TextLess(r.email, x.email)

\* ORDER BY activity_name, email DESC
ActivityEmailDescOrder(r, x) ==
  \/ TextLess(r.activity_name, x.activity_name)
  \/ r.activity_name = x.activity_name /\ TextLess(x.email, r.email)

\* SELECT name, description, schedule, max_participants FROM activities
\* ORDER BY name
RECURSIVE SelectAllActivities(_)
SelectAllActivities(table) ==
  IF BagToSet(table) = {} THEN <<>>
  ELSE LET first == CHOOSE r \in BagToSet(table) :
                      \A x \in BagToSet(table) : ~NameOrder(x, r)
       IN  <<first>> \o SelectAllActivities(table (-) SetToBag({first}))

\* The registrations query with the emails in descending order.
RECURSIVE SelectAllRegistrationsDesc(_)
SelectAllRegistrationsDesc(table) ==
  IF BagToSet(table) = {} THEN <<>>
  ELSE LET first == CHOOSE r \in BagToSet(table) :
                      \A x \in BagToSet(table) : ~ActivityEmailDescOrder(x, r)
       IN  <<first>> \o SelectAllRegistrationsDesc(table (-) SetToBag({first}))

\* SELECT activity_name, email FROM activity_registrations
\* ORDER BY activity_name, email
RECURSIVE SelectAllRegistrations(_)
SelectAllRegistrations(table) ==
  IF BagToSet(table) = {} THEN <<>>
  ELSE LET first == CHOOSE r \in BagToSet(table) :
                      \A x \in BagToSet(table) : ~ActivityEmailOrder(x, r)
       IN  <<first>> \o SelectAllRegistrations(table (-) SetToBag({first}))

\* ------------------------------------------------------- load_activities
\* The grouping loop with the activity name ignored: every list gets every
\* email.
participants_by_activity_ungrouped(registrations, activity_name) ==
  [i \in 1..Len(registrations) |-> registrations[i].email]

\* participants_by_activity.get(name, []): the emails of the rows of that
\* activity, in the order of the query's rows.
participants_by_activity(registrations, activity_name) ==
  LET mine == SelectSeq(registrations, LAMBDA r : r.activity_name = activity_name)
  IN  [i \in 1..Len(mine) |-> mine[i].email]

\* The returned dict, as the sequence of its items in insertion order.
load_activities(activity_rows, registrations) ==
  [i \in 1..Len(activity_rows) |->
     [name |-> activity_rows[i].name,
      description |-> activity_rows[i].description,
      schedule |-> activity_rows[i].schedule,
      max_participants |-> activity_rows[i].max_participants,
      participants |-> participants_by_activity(registrations, activity_rows[i].name)]]

\* ---------------------------------------------------------------- init_db
\* The inner loop of the seeding: one INSERT per participant, stopping at the
\* first that fails.
RECURSIVE SeedParticipants(_, _, _, _)
SeedParticipants(activity_name, participants, j, table) ==
  IF j > Len(participants) THEN [ok |-> TRUE, table |-> table]
  ELSE LET ins == InsertRegistration(table, RegistrationRow(activity_name, participants[j]))
       IN  IF ins.ok
             THEN SeedParticipants(activity_name, participants, j + 1, ins.table)
             ELSE [ok |-> FALSE, table |-> table]

\* The outer loop: one INSERT per default activity, then its participants.
RECURSIVE SeedActivities(_, _, _)
SeedActivities(i, acts, regs) ==
  IF i > Len(DEFAULT_ACTIVITIES)
    THEN [ok |-> TRUE, activities |-> acts, registrations |-> regs]
  ELSE LET activity == DEFAULT_ACTIVITIES[i]
           ins == InsertActivity(acts, ActivityRow(activity))
           sub == SeedParticipants(activity.name, activity.participants, 1, regs)
       IN  IF ~ins.ok
             THEN [ok |-> FALSE, activities |-> acts, registrations |-> regs]
           ELSE IF ~sub.ok
             THEN [ok |-> FALSE, activities |-> ins.table, registrations |-> regs]
           ELSE SeedActivities(i + 1, ins.table, sub.table)

\* A seeding that does not look at the count and skips the rows that are
\* already there (INSERT OR IGNORE): it puts back every default row that is
\* missing.
init_db_reseed(count, acts, regs) ==
  LET names == {r.name : r \in BagToSet(acts)}
      missing == {ActivityRow(DEFAULT_ACTIVITIES[i]) : i \in 1..Len(DEFAULT_ACTIVITIES)}
      rows == {RegistrationRow(DEFAULT_ACTIVITIES[i].name, DEFAULT_ACTIVITIES[i].participants[j]) :
                 i \in 1..Len(DEFAULT_ACTIVITIES), j \in 1..2}
  IN  [ok |-> TRUE,
       activities |-> acts (+) SetToBag({r \in missing : r.name \notin names}),
       registrations |-> regs (+) SetToBag({r \in rows : ~BagIn(r, regs)})]

\* The body of init_db after the count: seed when the count is 0, and what
\* the connection's context manager makes of it: commit when the block ends
\* normally, rollback of every insert when a statement raised.
init_db(count, acts, regs) ==
  IF count = 0
    THEN LET seeded == SeedActivities(1, acts, regs)
         IN  IF seeded.ok
               THEN seeded
               ELSE [ok |-> FALSE, activities |-> acts, registrations |-> regs]
    ELSE [ok |-> TRUE, activities |-> acts, registrations |-> regs]

\* ------------------------------------------------------------------ state
VARIABLES
  activities,               \* table activities
  activity_registrations,   \* table activity_registrations
  pc,                       \* where each worker is
  request,                  \* the (activity_name, email) a worker is handling
  existing_activity_count,  \* init_db's local of that name
  activity_rows,            \* load_activities' local of that name
  open_connection,          \* whether a connection the worker opened is still open
  response                  \* the response the last step sent, if it sent one

vars == <<activities, activity_registrations, pc, request,
          existing_activity_count, activity_rows, open_connection, response>>

tables == <<activities, activity_registrations>>

NoRequest == [activity_name |-> "", email |-> ""]
NoResponse == [status |-> 0, kind |-> "none", body |-> <<>>]

HTTPException(status_code, detail) ==
  [status |-> status_code, kind |-> "detail", body |-> <<detail>>]
\* An exception no handler catches: the framework answers 500.
ServerError == [status |-> 500, kind |-> "detail", body |-> <<"Internal Server Error">>]
Message(verb, email, preposition, activity_name) ==
  [status |-> 200, kind |-> "message", body |-> <<verb, email, preposition, activity_name>>]
Catalog(items) == [status |-> 200, kind |-> "catalog", body |-> items]

\* The database file does not exist: both tables are created empty by the
\* first CREATE TABLE IF NOT EXISTS.
Init ==
  /\ activities = EmptyBag
  /\ activity_registrations = EmptyBag
  /\ pc = [w \in Workers |-> "import"]
  /\ request = [w \in Workers |-> NoRequest]
  /\ existing_activity_count = [w \in Workers |-> 0]
  /\ activity_rows = [w \in Workers |-> <<>>]
  /\ open_connection = [w \in Workers |-> FALSE]
  /\ response = NoResponse

\* ---------------------------------------------------------------- actions
\* init_db up to the count: connect, CREATE TABLE IF NOT EXISTS twice,
\* SELECT COUNT(*).
InitDbCount(w) ==
  /\ pc[w] = "import"
  /\ pc' = [pc EXCEPT ![w] = "init_db"]
  /\ open_connection' = [open_connection EXCEPT ![w] = TRUE]
  /\ existing_activity_count' =
       [existing_activity_count EXCEPT ![w] = CountActivities(activities)]
  /\ response' = NoResponse
  /\ UNCHANGED <<tables, request, activity_rows>>

\* init_db from the count on. A failed import ends the process, which then
\* holds nothing; a finished one goes on to serve requests.
InitDbSeed(w) ==
  /\ pc[w] = "init_db"
  /\ LET done == init_db(existing_activity_count[w], activities, activity_registrations)
     IN  /\ activities' = done.activities
         /\ activity_registrations' = done.registrations
         /\ pc' = [pc EXCEPT ![w] = IF done.ok THEN "idle" ELSE "failed"]
         /\ open_connection' = [open_connection EXCEPT ![w] = done.ok]
  /\ existing_activity_count' = [existing_activity_count EXCEPT ![w] = 0]
  /\ response' = NoResponse
  /\ UNCHANGED <<request, activity_rows>>

\* The process is started again: the module is imported anew.
Restart(w) ==
  /\ pc[w] \in {"idle", "failed"}
  /\ pc' = [pc EXCEPT ![w] = "import"]
  /\ open_connection' = [open_connection EXCEPT ![w] = FALSE]
  /\ response' = NoResponse
  /\ UNCHANGED <<tables, request, existing_activity_count, activity_rows>>

\* The runtime finalises the connection objects no frame refers to any more;
\* nothing in the program closes one.
Finalize(w) ==
  /\ pc[w] = "idle"
  /\ open_connection[w]
  /\ open_connection' = [open_connection EXCEPT ![w] = FALSE]
  /\ response' = NoResponse
  /\ UNCHANGED <<tables, pc, request, existing_activity_count, activity_rows>>

\* Leaving a handler: the worker is free again and the response goes out.
\* The connection stays as it is: the with block commits or rolls back, it
\* does not close.
Return(w, r) ==
  /\ pc' = [pc EXCEPT ![w] = "idle"]
  /\ request' = [request EXCEPT ![w] = NoRequest]
  /\ response' = r

\* A handler that goes on to its next statement.
Goto(w, label) ==
  /\ pc' = [pc EXCEPT ![w] = label]
  /\ response' = NoResponse

\* A request reaches one of the three routes and its handler is entered.
CallGetActivities(w) ==
  /\ pc[w] = "idle"
  /\ Goto(w, "get_activities")
  /\ UNCHANGED <<tables, request, existing_activity_count, activity_rows, open_connection>>

CallSignup(w, activity_name, email) ==
  /\ pc[w] = "idle"
  /\ Goto(w, "signup")
  /\ request' = [request EXCEPT ![w] = RegistrationRow(activity_name, email)]
  /\ UNCHANGED <<tables, existing_activity_count, activity_rows, open_connection>>

CallUnregister(w, activity_name, email) ==
  /\ pc[w] = "idle"
  /\ Goto(w, "unregister")
  /\ request' = [request EXCEPT ![w] = RegistrationRow(activity_name, email)]
  /\ UNCHANGED <<tables, existing_activity_count, activity_rows, open_connection>>

\* load_activities, first query.
LoadSelectActivities(w) ==
  /\ pc[w] = "get_activities"
  /\ UNCHANGED request
  /\ open_connection' = [open_connection EXCEPT ![w] = TRUE]
  /\ activity_rows' = [activity_rows EXCEPT ![w] = SelectAllActivities(activities)]
  /\ Goto(w, "load_registrations")
  /\ UNCHANGED <<tables, existing_activity_count>>

\* load_activities, second query and the two loops.
LoadSelectRegistrations(w) ==
  /\ pc[w] = "load_registrations"
  /\ Return(w, Catalog(load_activities(activity_rows[w],
                                       SelectAllRegistrations(activity_registrations))))
  /\ activity_rows' = [activity_rows EXCEPT ![w] = <<>>]
  /\ UNCHANGED <<tables, existing_activity_count, open_connection>>

\* signup_for_activity: connect and look the activity up.
SignupSelectActivity(w) ==
  /\ pc[w] = "signup"
  /\ open_connection' = [open_connection EXCEPT ![w] = TRUE]
  /\ IF SelectActivity(activities, request[w].activity_name) = {}
       THEN Return(w, HTTPException(404, "Activity not found"))
       ELSE /\ Goto(w, "signup_check")
            /\ UNCHANGED request
  /\ UNCHANGED <<tables, existing_activity_count, activity_rows>>

\* signup_for_activity: look the registration up.
SignupSelectRegistration(w) ==
  /\ pc[w] = "signup_check"
  /\ IF SelectRegistration(activity_registrations,
                           request[w].activity_name, request[w].email) # {}
       THEN Return(w, HTTPException(400, "Student is already signed up"))
       ELSE /\ Goto(w, "signup_insert")
            /\ UNCHANGED request
  /\ UNCHANGED <<tables, existing_activity_count, activity_rows, open_connection>>

\* A signup that turns the student away once the activity is full.
SignupInsertUpToCapacity(w) ==
  /\ pc[w] = "signup_insert"
  /\ LET full == \E a \in BagToSet(activities) :
                   /\ a.name = request[w].activity_name
                   /\ Cardinality({r \in BagToSet(activity_registrations) :
                                     r.activity_name = a.name}) >= a.max_participants
         ins == InsertRegistration(activity_registrations, request[w])
     IN  IF full
           THEN /\ activity_registrations' = activity_registrations
                /\ Return(w, HTTPException(400, "Activity is full"))
         ELSE IF ins.ok
           THEN /\ activity_registrations' = ins.table
                /\ Return(w, Message("Signed up", request[w].email,
                                     "for", request[w].activity_name))
           ELSE /\ activity_registrations' = activity_registrations
                /\ Return(w, ServerError)
  /\ UNCHANGED <<activities, existing_activity_count, activity_rows, open_connection>>

\* signup_for_activity: the INSERT and the end of the with block. Nothing
\* catches the IntegrityError of a row that is there by now.
SignupInsert(w) ==
  /\ pc[w] = "signup_insert"
  /\ LET ins == InsertRegistration(activity_registrations, request[w])
     IN  IF ins.ok
           THEN /\ activity_registrations' = ins.table
                /\ Return(w, Message("Signed up", request[w].email,
                                     "for", request[w].activity_name))
           ELSE /\ activity_registrations' = activity_registrations
                /\ Return(w, ServerError)
  /\ UNCHANGED <<activities, existing_activity_count, activity_rows, open_connection>>

\* unregister_from_activity: connect and look the activity up.
UnregisterSelectActivity(w) ==
  /\ pc[w] = "unregister"
  /\ open_connection' = [open_connection EXCEPT ![w] = TRUE]
  /\ IF SelectActivity(activities, request[w].activity_name) = {}
       THEN Return(w, HTTPException(404, "Activity not found"))
       ELSE /\ Goto(w, "unregister_delete")
            /\ UNCHANGED request
  /\ UNCHANGED <<tables, existing_activity_count, activity_rows>>

\* unregister_from_activity: the DELETE, the rowcount test and the end of the
\* with block.
UnregisterDelete(w) ==
  /\ pc[w] = "unregister_delete"
  /\ LET del == DeleteRegistration(activity_registrations,
                                   request[w].activity_name, request[w].email)
     IN  IF del.rowcount = 0
           THEN /\ activity_registrations' = activity_registrations
                /\ Return(w, HTTPException(400, "Student is not signed up for this activity"))
           ELSE /\ activity_registrations' = del.table
                /\ Return(w, Message("Unregistered", request[w].email,
                                     "from", request[w].activity_name))
  /\ UNCHANGED <<activities, existing_activity_count, activity_rows, open_connection>>

\* ------------------------------------------------------------- the system
\* Everything a worker does by itself.
Run(w) ==
  \/ InitDbCount(w)
  \/ InitDbSeed(w)
  \/ Restart(w)
  \/ Finalize(w)
  \/ CallGetActivities(w)
  \/ LoadSelectActivities(w)
  \/ LoadSelectRegistrations(w)
  \/ SignupSelectActivity(w)
  \/ SignupSelectRegistration(w)
  \/ SignupInsert(w)
  \/ UnregisterSelectActivity(w)
  \/ UnregisterDelete(w)

\* What the clients ask for in the general scenario.
ActivityNames == {"Chess Club", "Robotics Club"}
Emails == {"michael@mergington.edu"}

Next ==
  \E w \in Workers :
    \/ Run(w)
    \/ \E a \in ActivityNames, e \in Emails : CallSignup(w, a, e)
    \/ \E a \in ActivityNames, e \in Emails : CallUnregister(w, a, e)

Spec == Init /\ [][Next]_vars

\* The capacity scenario: one worker, and the students of the roster ask for
\* "Math Club" one after the other. A request names the last student of the
\* roster who is in, or the first who is not.
Roster ==
  << "michael@mergington.edu", "daniel@mergington.edu", "emma@mergington.edu",
     "sophia@mergington.edu", "john@mergington.edu", "olivia@mergington.edu",
     "liam@mergington.edu", "noah@mergington.edu", "ava@mergington.edu",
     "mia@mergington.edu", "amelia@mergington.edu", "harper@mergington.edu",
     "ella@mergington.edu", "scarlett@mergington.edu",
     "charlotte@mergington.edu", "henry@mergington.edu" >>

InTable(table, activity_name, email) ==
  BagIn(RegistrationRow(activity_name, email), table)

Registered(activity_name, email) ==
  InTable(activity_registrations, activity_name, email)

RosterTurn ==
  {Roster[i] : i \in {n \in 1..NumStudents :
                        /\ \A j \in 1..(n - 1) : Registered("Math Club", Roster[j])
                        /\ n < NumStudents => ~Registered("Math Club", Roster[n + 1])}}

FirstWorker == CHOOSE w \in Workers : \A v \in Workers : w <= v

NextCapacity ==
  \/ Run(FirstWorker)
  \/ \E e \in RosterTurn : CallSignup(FirstWorker, "Math Club", e)
  \/ \E e \in RosterTurn : CallUnregister(FirstWorker, "Math Club", e)

SpecCapacity == Init /\ [][NextCapacity]_vars

\* ----------------------------------------------------------------- claims
StoredNames == {r.name : r \in BagToSet(activities)}

\* The rows of the default data, each once.
SeedRegistrations ==
  SetToBag({RegistrationRow(DEFAULT_ACTIVITIES[i].name, DEFAULT_ACTIVITIES[i].participants[j]) :
              i \in 1..Len(DEFAULT_ACTIVITIES), j \in 1..2})

\* Worker w takes a step of its handler or of init_db.
Moves(w) == pc'[w] # pc[w]

Enrolled(table, activity_name) ==
  BagCardinality([r \in {x \in BagToSet(table) : x.activity_name = activity_name} |-> table[r]])

\* table2 is table1 with one more copy of row and nothing else changed.
OneRowAdded(table1, table2, row) ==
  /\ BagToSet(table2) = BagToSet(table1) \cup {row}
  /\ \A r \in BagToSet(table2) :
       CopiesIn(r, table2) = CopiesIn(r, table1) + (IF r = row THEN 1 ELSE 0)

\* table2 is table1 without row and nothing else changed.
OneRowRemoved(table1, table2, row) ==
  /\ CopiesIn(row, table1) = 1
  /\ BagToSet(table2) = BagToSet(table1) \ {row}
  /\ \A r \in BagToSet(table2) : CopiesIn(r, table2) = CopiesIn(r, table1)

\* C1 (as claimed): a signup whose INSERT finds the row there (its check ran
\* before the other signup of the same pair inserted) ends with 400
\* "Student is already signed up" and the row is there once.
C1_RaceLoserAlreadyRegistered ==
  [][\A w \in Workers :
       (/\ pc[w] = "signup_insert"
        /\ Moves(w)
        /\ Registered(request[w].activity_name, request[w].email))
       => /\ response' = HTTPException(400, "Student is already signed up")
          /\ CopiesIn(request[w], activity_registrations') = 1]_vars

\* C2: every (activity_name, email) row occurs once, and names a stored
\* activity.
C2_RegistrationsUniqueAndReferenced ==
  \A r \in BagToSet(activity_registrations) :
    /\ CopiesIn(r, activity_registrations) = 1
    /\ r.activity_name \in StoredNames

\* The loser of a race was turned away and the pair is registered.
C2_Witness ==
  /\ response = ServerError
  /\ Registered("Chess Club", "michael@mergington.edu")

\* C3: the first step of a signup or an unregister for an activity name that
\* is not stored ends the request with 404 "Activity not found" and changes
\* no table.
C3_UnknownActivityNotFound ==
  [][\A w \in Workers :
       (/\ pc[w] \in {"signup", "unregister"}
        /\ Moves(w)
        /\ request[w].activity_name \notin StoredNames)
       => /\ pc'[w] = "idle"
          /\ response' = HTTPException(404, "Activity not found")
          /\ UNCHANGED tables]_vars

C3_Witness ==
  /\ response = HTTPException(404, "Activity not found")
  /\ "Robotics Club" \notin StoredNames
  /\ "Chess Club" \in StoredNames

\* C4: a signup for a stored activity whose check finds the row ends with 400
\* "Student is already signed up" and changes no table; one whose check and
\* INSERT find no row ends with the "Signed up" message and the table has
\* that one row more.
C4_SignupOnceThenAlreadyRegistered ==
  [][\A w \in Workers :
       LET there == Registered(request[w].activity_name, request[w].email)
       IN  /\ (pc[w] = "signup" /\ Moves(w) /\ request[w].activity_name \in StoredNames)
                => pc'[w] = "signup_check" /\ UNCHANGED tables
           /\ (pc[w] = "signup_check" /\ Moves(w) /\ there)
                => /\ pc'[w] = "idle"
                   /\ response' = HTTPException(400, "Student is already signed up")
                   /\ UNCHANGED tables
           /\ (pc[w] = "signup_check" /\ Moves(w) /\ ~there)
                => pc'[w] = "signup_insert" /\ UNCHANGED tables
           /\ (pc[w] = "signup_insert" /\ Moves(w) /\ ~there)
                => /\ pc'[w] = "idle"
                   /\ response' = Message("Signed up", request[w].email,
                                          "for", request[w].activity_name)
                   /\ OneRowAdded(activity_registrations, activity_registrations',
                                  request[w])
                   /\ UNCHANGED activities]_vars

C4_Witness ==
  /\ response = Message("Signed up", "michael@mergington.edu", "for", "Chess Club")
  /\ Registered("Chess Club", "michael@mergington.edu")

\* C5: the DELETE step of an unregister for a registered pair ends with the
\* "Unregistered" message and the table has lost that one row and no other;
\* for a pair that is not registered it ends with 400 "Student is not signed
\* up for this activity" and changes no table.
C5_UnregisterOnceThenNotRegistered ==
  [][\A w \in Workers :
       (pc[w] = "unregister_delete" /\ Moves(w))
       => /\ pc'[w] = "idle"
          /\ UNCHANGED activities
          /\ IF Registered(request[w].activity_name, request[w].email)
               THEN /\ response' = Message("Unregistered", request[w].email,
                                           "from", request[w].activity_name)
                    /\ OneRowRemoved(activity_registrations, activity_registrations',
                                     request[w])
               ELSE /\ response' = HTTPException(400, "Student is not signed up for this activity")
                    /\ UNCHANGED activity_registrations]_vars

C5_Witness ==
  /\ response = Message("Unregistered", "michael@mergington.edu", "from", "Chess Club")
  /\ ~Registered("Chess Club", "michael@mergington.edu")
  /\ Registered("Chess Club", "daniel@mergington.edu")

\* C6: the catalog a GET /activities returns has one item per stored
\* activity, in ascending order of name; the participants of each item are
\* the emails of the rows of that activity, each once, in ascending order;
\* and no table changes.
C6_CatalogSortedAndExact ==
  [][\A w \in Workers :
       (pc[w] = "load_registrations" /\ Moves(w))
       => /\ response'.kind = "catalog"
          /\ UNCHANGED tables
          /\ LET items == response'.body
             IN  /\ Len(items) = BagCardinality(activities)
                 /\ {items[i].name : i \in 1..Len(items)} = StoredNames
                 /\ \A i \in 1..Len(items), j \in 1..Len(items) :
                      i < j => TextLess(items[i].name, items[j].name)
                 /\ \A i \in 1..Len(items) :
                      LET list == items[i].participants
                      IN  /\ {list[k] : k \in 1..Len(list)} =
                               {r.email : r \in {x \in BagToSet(activity_registrations) :
                                                   x.activity_name = items[i].name}}
                          /\ \A k \in 1..Len(list), l \in 1..Len(list) :
                               k < l => TextLess(list[k], list[l])]_vars

\* A catalog read after an unregister: the email is gone from the list.
C6_Witness ==
  /\ response.kind = "catalog"
  /\ ~Registered("Chess Club", "michael@mergington.edu")
  /\ \E i \in 1..Len(response.body) :
       /\ response.body[i].name = "Chess Club"
       /\ response.body[i].participants = << "daniel@mergington.edu" >>

\* C7 (as claimed): with the tables as the seeding left them, the catalog has
\* 9 items and "Chess Club" lists michael before daniel.
C7_FreshCatalogSeedOrder ==
  [][\A w \in Workers :
       (/\ pc[w] = "load_registrations"
        /\ Moves(w)
        /\ activity_registrations = SeedRegistrations)
       => /\ Len(response'.body) = 9
          /\ \E i \in 1..9 :
               /\ response'.body[i].name = "Chess Club"
               /\ response'.body[i].participants =
                    << "michael@mergington.edu", "daniel@mergington.edu" >>]_vars

\* C7 (amended): with the tables as the seeding left them, the catalog has 9
\* items and "Chess Club" lists daniel before michael, the order of the
\* emails.
C7_FreshCatalogEmailOrder ==
  [][\A w \in Workers :
       (/\ pc[w] = "load_registrations"
        /\ Moves(w)
        /\ activity_registrations = SeedRegistrations)
       => /\ Len(response'.body) = 9
          /\ \E i \in 1..9 :
               /\ response'.body[i].name = "Chess Club"
               /\ response'.body[i].participants =
                    << "daniel@mergington.edu", "michael@mergington.edu" >>]_vars

C7_Witness ==
  /\ response.kind = "catalog"
  /\ activity_registrations = SeedRegistrations
  /\ Len(response.body) = 9

\* C8: the step of init_db after the count changes no table when an activity
\* is stored; on empty tables it leaves the 9 default activities and the
\* default registrations, each once.
C8_BootstrapIdempotent ==
  [][\A w \in Workers :
       (pc[w] = "init_db" /\ Moves(w))
       => IF BagToSet(activities) # {}
            THEN UNCHANGED tables
            ELSE /\ BagCardinality(activities') = 9
                 /\ {r.name : r \in BagToSet(activities')} =
                      {DEFAULT_ACTIVITIES[i].name : i \in 1..Len(DEFAULT_ACTIVITIES)}
                 /\ activity_registrations' = SeedRegistrations]_vars

\* init_db has run again after an unregister of a seeded participant.
C8_Witness ==
  /\ ~Registered("Chess Club", "michael@mergington.edu")
  /\ BagCardinality(activities) = 9
  /\ \E w \in Workers : pc[w] = "init_db" /\ existing_activity_count[w] = 9

\* C9: the INSERT step of a signup for a pair that is not registered succeeds
\* also when the activity has max_participants rows or more.
C9_SignupIgnoresCapacity ==
  [][\A w \in Workers :
       (/\ pc[w] = "signup_insert"
        /\ Moves(w)
        /\ ~Registered(request[w].activity_name, request[w].email)
        /\ \E a \in BagToSet(activities) :
             /\ a.name = request[w].activity_name
             /\ Enrolled(activity_registrations, a.name) >= a.max_participants)
       => /\ response' = Message("Signed up", request[w].email,
                                 "for", request[w].activity_name)
          /\ InTable(activity_registrations', request[w].activity_name, request[w].email)]_vars

\* An activity with more rows than max_participants, the last signup
\* answered with the "Signed up" message.
C9_Witness ==
  /\ response.kind = "message"
  /\ response.body[1] = "Signed up"
  /\ \E a \in BagToSet(activities) :
       /\ a.name = response.body[4]
       /\ Enrolled(activity_registrations, a.name) > a.max_participants

\* C10 (as claimed): a worker that is in no operation holds no open
\* connection.
C10_NoConnectionLeftOpen ==
  \A w \in Workers : pc[w] \in {"idle", "failed"} => ~open_connection[w]
====
